---- MODULE Spec2Model ----
(***************************************************************************)
(* A model of pygmsh's multi-point curve (built_in/spline.py) and of       *)
(* helpers.generate_mesh (helpers.py).                                     *)
(*                                                                         *)
(* Text is modelled as a sequence of string tokens, so that formatting and *)
(* joining are real operations whose result can be parsed back.  Arrays    *)
(* are sequences (of rows); numpy's 0-based indices are kept as they are   *)
(* and shifted by one only where a TLA+ sequence is subscripted.           *)
(***************************************************************************)
EXTENDS Integers, Sequences, FiniteSets, TLC

VARIABLES
    line_ID,     \* LineBase._ID, the per-kind counter behind Spline ids
    spline,      \* outcome of the last Spline(points) construction
    pc,          \* position of the generate_mesh call
    a,           \* arguments and locals of the running generate_mesh call
    heap,        \* the list objects: the caller's own list and a fresh one
    caller0,     \* what the caller put in its list (never written again)
    cmd,         \* argv handed to subprocess.Popen
    files,       \* files that exist on disk
    proc,        \* the engine process
    pipe,        \* the bounded OS pipe carrying the engine's stdout/stderr
    buf,         \* p.stdout's read buffer (a partial line)
    printed,     \* what generate_mesh printed, one entry per print call
    mesh,        \* the mesh object returned by meshio.read, as mutated
    raw,         \* the mesh as decoded, before any post-processing
    result,      \* what generate_mesh returned
    hist         \* per call: engine launches, decoder runs; and calls so far

vars == << line_ID, spline, pc, a, heap, caller0, cmd, files, proc, pipe,
           buf, printed, mesh, raw, result, hist >>

splineVars == << line_ID, spline >>
meshVars == << pc, a, heap, caller0, cmd, files, proc, pipe, buf, printed,
               mesh, raw, result, hist >>

----------------------------------------------------------------------------
(* Bounds of the model. *)

MaxLen == 5        \* longest sequence handed to Spline
MaxId == 2         \* Spline constructions explored
MaxCalls == 2      \* generate_mesh calls explored
MaxOut == 3        \* tokens the engine writes to its output
PipeCap == 2       \* tokens the pipe holds before a write blocks
MaxPts == 3        \* points of a decoded mesh
MaxEntries == 4    \* vertex indices in the cell blocks of a decoded mesh
MaxTypes == 3      \* cell types present at once in a decoded mesh

----------------------------------------------------------------------------
(* Generic helpers. *)

Range(s) == { s[i] : i \in 1..Len(s) }

SeqsUpTo(S, n) == UNION { [1..k -> S] : k \in 0..n }

Digits == << "0", "1", "2", "3", "4", "5", "6", "7", "8", "9" >>

RECURSIVE ToStr(_)
\* str(n) for a natural number n
ToStr(n) == IF n < 10 THEN Digits[n + 1]
            ELSE ToStr(n \div 10) \o Digits[(n % 10) + 1]

RECURSIVE Join(_, _)
\* sep.join(parts): parts are token sequences, sep is one token
Join(sep, parts) ==
    IF Len(parts) = 0 THEN << >>
    ELSE IF Len(parts) = 1 THEN parts[1]
    ELSE parts[1] \o << sep >> \o Join(sep, Tail(parts))

----------------------------------------------------------------------------
(* built_in/spline.py *)

PointEnt(n) == [kind |-> "Point", id |-> "p" \o ToStr(n)]
OtherEnt == [kind |-> "Line", id |-> "l99"]
Entities == { PointEnt(0), PointEnt(1), OtherEnt }

IsPoint(c) == c.kind = "Point"

\* LineBase.__init__: the id is drawn from the per-kind counter
LineBaseId(n) == "l" \o ToStr(n)

\* a faulty variant: three points are accepted
SplineAssertsLoose(points) ==
    /\ \A i \in 1..Len(points) : IsPoint(points[i])
    /\ Len(points) >= 3

\* the two assertions of Spline.__init__
SplineAsserts(points) ==
    /\ \A i \in 1..Len(points) : IsPoint(points[i])
    /\ Len(points) > 3

\* a faulty variant: the point list is emitted without its repeated points
RECURSIVE Dedup(_)
Dedup(s) == IF s = << >> THEN << >>
            ELSE LET r == Dedup(SubSeq(s, 1, Len(s) - 1))
                 IN IF s[Len(s)] \in Range(r) THEN r ELSE Append(r, s[Len(s)])

SplineCodeDedup(id, points) ==
    Join("\n", <<
        << id, " = newl;" >>,
        << "BSpline(", id, ") = {" >>
            \o Join(", ", [i \in 1..Len(Dedup(points)) |-> << Dedup(points)[i].id >>])
            \o << "};" >>
    >>)

\* self.code
SplineCode(id, points) ==
    Join("\n", <<
        << id, " = newl;" >>,
        << "BSpline(", id, ") = {" >>
            \o Join(", ", [i \in 1..Len(points) |-> << points[i].id >>])
            \o << "};" >>
    >>)

NoSpline == [status |-> "none", args |-> << >>, id |-> "", points |-> << >>,
             code |-> << >>]

\* Spline(points)
SplineInit(points) ==
    /\ line_ID < MaxId
    /\ line_ID' = line_ID + 1
    /\ spline' =
         IF SplineAsserts(points)
         THEN [status |-> "ok", args |-> points, id |-> LineBaseId(line_ID),
               points |-> points, code |-> SplineCode(LineBaseId(line_ID), points)]
         ELSE [status |-> "AssertionError", args |-> points, id |-> "",
               points |-> << >>, code |-> << >>]
    /\ UNCHANGED meshVars

----------------------------------------------------------------------------
(* helpers.py: generate_mesh, up to the launch of the engine *)

None == "None"

\* _get_gmsh_exe() where the macOS application is not installed
GmshExe == "gmsh"

\* tempfile.NamedTemporaryFile(suffix=...).name: a name no other call gets
TmpName(n, suffix) == "tmp" \o ToStr(n) \o suffix

NoArgs == [verbose |-> FALSE, dim |-> 0, prune_vertices |-> FALSE,
           prune_z_0 |-> FALSE, remove_faces |-> FALSE, extra |-> None,
           geo_filename |-> None, mesh_file_type |-> "", preserve_geo |-> FALSE,
           msh_filename |-> ""]

NoProc == [state |-> "none", out |-> << >>, written |-> << >>, returncode |-> None]

NoMesh == [points |-> << >>, cells |-> << >>, point_data |-> << >>,
           cell_data |-> << >>, field_data |-> << >>]

NoResult == [status |-> "none", value |-> NoMesh]

\* the call ends with an exception instead of a value
Raised(e) == [status |-> e, value |-> NoMesh]

SaveTagOption == << "-string", "Mesh.SaveElementTagType=2;" >>

\* extra_gmsh_arguments += [...]: list.__iadd__ extends the list object in place
ExtendExtra(h, ref) == [h EXCEPT ![ref] = @ \o SaveTagOption]

\* args: the argument vector after the executable
EngineArgs(dim, geo_filename, mesh_file_type, msh_filename, extra) ==
    << "-" \o ToStr(dim), geo_filename, "-format", mesh_file_type, "-bin", "-o",
       msh_filename >> \o extra

\* generate_mesh(...) from its entry to subprocess.Popen; out is what the
\* engine is going to write to its stdout/stderr
Call(args, out) ==
    /\ pc = "idle"
    /\ hist.calls < MaxCalls
    /\ LET ref == IF args.extra = None THEN "fresh" ELSE "caller"
           h1 == IF args.extra = None THEN [heap EXCEPT !.fresh = << >>] ELSE heap
           h2 == IF args.mesh_file_type = "mesh" THEN ExtendExtra(h1, ref) ELSE h1
           preserve_geo == args.geo_filename # None
           geo_filename == IF args.geo_filename = None
                           THEN TmpName(hist.calls, ".geo")
                           ELSE args.geo_filename
           msh_filename == TmpName(hist.calls, "." \o args.mesh_file_type)
       IN /\ heap' = h2
          /\ a' = [args EXCEPT !.extra = ref, !.geo_filename = geo_filename,
                               !.preserve_geo = preserve_geo,
                               !.msh_filename = msh_filename]
          \* the temporary files are created and deleted again by their with
          \* blocks; open(geo_filename, "w") then creates the script
          /\ files' = files \cup { geo_filename }
          /\ cmd' = << GmshExe >> \o EngineArgs(args.dim, geo_filename,
                        args.mesh_file_type, msh_filename, h2[ref])
          /\ proc' = [state |-> "running", out |-> out, written |-> << >>,
                      returncode |-> None]
          /\ pc' = IF args.verbose THEN "readline" ELSE "communicate"
    /\ hist' = [calls |-> hist.calls + 1, popen |-> 1, read |-> 0]
    /\ pipe' = << >> /\ buf' = << >> /\ printed' = << >>
    /\ mesh' = NoMesh /\ raw' = NoMesh /\ result' = NoResult
    /\ UNCHANGED << caller0, splineVars >>

----------------------------------------------------------------------------
(* The engine process and its output pipe (the operating system's part of  *)
(* subprocess.Popen(..., stdout=PIPE, stderr=STDOUT)).                     *)

ReturnCodes == { 0, 1, -11 }

\* the engine's write(2): it blocks while the pipe is full
EngineWrite ==
    /\ proc.state = "running"
    /\ proc.out # << >>
    /\ Len(pipe) < PipeCap
    /\ pipe' = Append(pipe, Head(proc.out))
    /\ proc' = [proc EXCEPT !.out = Tail(@), !.written = Append(@, Head(proc.out))]
    /\ UNCHANGED << pc, a, heap, caller0, cmd, files, buf, printed, mesh, raw,
                    result, hist, splineVars >>

\* the engine ends with status rc, having written the mesh file or not; its
\* end of the pipe is closed
EngineExit(rc, wrote) ==
    /\ proc.state = "running"
    /\ proc.out = << >>
    /\ proc' = [proc EXCEPT !.state = "exited", !.returncode = rc]
    /\ files' = IF wrote THEN files \cup { a.msh_filename } ELSE files
    /\ UNCHANGED << pc, a, heap, caller0, cmd, pipe, buf, printed, mesh, raw,
                    result, hist, splineVars >>

AtEOF == pipe = << >> /\ proc.state = "exited"

HasLine(b) == b # << >> /\ b[Len(b)] = "\n"

----------------------------------------------------------------------------
(* helpers.py: the verbose loop, communicate() and the assertion *)

\* a faulty variant of CanRead: the pipe is read only in verbose mode
CanReadVerboseOnly(where) == where = "readline"

\* the places where generate_mesh reads the engine's output
CanRead(where) == where \in { "readline", "communicate" }

\* p.stdout.readline(), filling its buffer from the pipe
ReadFill ==
    /\ pc = "readline" /\ CanRead(pc)
    /\ ~HasLine(buf)
    /\ pipe # << >>
    /\ buf' = Append(buf, Head(pipe))
    /\ pipe' = Tail(pipe)
    /\ UNCHANGED << pc, a, heap, caller0, cmd, files, proc, printed, mesh, raw,
                    result, hist, splineVars >>

\* readline() returns a line (at end of stream, what is left of one);
\* print(line.decode("utf-8"), end="")
PrintLine ==
    /\ pc = "readline"
    /\ HasLine(buf) \/ (buf # << >> /\ AtEOF)
    /\ printed' = Append(printed, buf)
    /\ buf' = << >>
    /\ UNCHANGED << pc, a, heap, caller0, cmd, files, proc, pipe, mesh, raw,
                    result, hist, splineVars >>

\* readline() returns b"" at end of stream: break
ReadEOF ==
    /\ pc = "readline"
    /\ buf = << >> /\ AtEOF
    /\ pc' = "communicate"
    /\ UNCHANGED << a, heap, caller0, cmd, files, proc, pipe, buf, printed, mesh,
                    raw, result, hist, splineVars >>

\* p.communicate(): stdout.read() takes what the engine writes
CommunicateRead ==
    /\ pc = "communicate" /\ CanRead(pc)
    /\ pipe # << >>
    /\ pipe' = Tail(pipe)
    /\ UNCHANGED << pc, a, heap, caller0, cmd, files, proc, buf, printed, mesh,
                    raw, result, hist, splineVars >>

\* p.communicate(): end of stream, then wait() for the exit status
CommunicateDone ==
    /\ pc = "communicate"
    /\ AtEOF
    /\ pc' = "assert"
    /\ UNCHANGED << a, heap, caller0, cmd, files, proc, pipe, buf, printed, mesh,
                    raw, result, hist, splineVars >>

\* a faulty variant of ReturncodeOk: only a positive status counts as a failure
ReturncodeOkNegative(rc) == rc <= 0

\* p.returncode == 0
ReturncodeOk(rc) == rc = 0

\* assert p.returncode == 0, ...
AssertReturncode ==
    /\ pc = "assert"
    /\ pc' = IF ReturncodeOk(proc.returncode) THEN "read" ELSE "failed"
    /\ result' = IF ReturncodeOk(proc.returncode) THEN result
                 ELSE Raised("AssertionError")
    /\ UNCHANGED << a, heap, caller0, cmd, files, proc, pipe, buf, printed, mesh,
                    raw, hist, splineVars >>

----------------------------------------------------------------------------
(* helpers.py: decoding and the post-processing stages *)

\* |z| < 1.0e-13, with coordinates counted in units of 1.0e-14
ZTol == 10

Abs(x) == IF x < 0 THEN -x ELSE x

two_d_cells == { "triangle", "quad" }
three_d_cells == { "tetra", "hexahedron", "wedge", "pyramid", "penta_prism",
                   "hexa_prism" }

\* a faulty variant of KeepKeys: the surface blocks are looked for first
KeepKeysSurfaceFirst(keys) ==
    IF \E k \in two_d_cells : k \in keys THEN two_d_cells \cap keys
    ELSE IF \E k \in three_d_cells : k \in keys THEN three_d_cells \cap keys
    ELSE keys

\* keep_keys
KeepKeys(keys) ==
    IF \E k \in three_d_cells : k \in keys THEN three_d_cells \cap keys
    ELSE IF \E k \in two_d_cells : k \in keys THEN two_d_cells \cap keys
    ELSE keys

RECURSIVE Concat(_)
\* numpy.concatenate of a sequence of one-dimensional arrays
Concat(ss) == IF ss = << >> THEN << >> ELSE Head(ss) \o Concat(Tail(ss))

RECURSIVE SortedSeq(_)
\* the elements of a set of integers in increasing order
SortedSeq(S) ==
    IF S = {} THEN << >>
    ELSE LET m == CHOOSE x \in S : \A y \in S : x <= y
         IN << m >> \o SortedSeq(S \ { m })

\* numpy.prod(block.shape) and block.shape of a two-dimensional array
Shape(block) == << Len(block), Len(block[1]) >>
Size(block) == Len(block) * Len(block[1])

\* flat.reshape(shape)
Reshape(flat, shape) ==
    [r \in 1..shape[1] |-> [c \in 1..shape[2] |-> flat[(r - 1) * shape[2] + c]]]

\* the iteration orders a dict with these keys can have
KeyOrders(keys) ==
    { s \in [1..Cardinality(keys) -> keys] :
        \A i, j \in 1..Cardinality(keys) : i # j => s[i] # s[j] }

\* ncells: the blocks in the dict's order, each flattened row by row
NCells(cells, ord) == Concat([i \in 1..Len(ord) |-> Concat(cells[ord[i]])])

\* a faulty variant of Unique: the referenced vertices in order of first reference
RECURSIVE FirstSeen(_)
FirstSeen(ncells) ==
    IF ncells = << >> THEN << >>
    ELSE LET r == FirstSeen(SubSeq(ncells, 1, Len(ncells) - 1))
         IN IF ncells[Len(ncells)] \in Range(r) THEN r
            ELSE Append(r, ncells[Len(ncells)])

\* uvertices of numpy.unique: the sorted distinct values
Unique(ncells) == SortedSeq(Range(ncells))

\* uidx of numpy.unique(return_inverse=True), 0-based
Inverse(uvertices, ncells) ==
    [j \in 1..Len(ncells) |->
        (CHOOSE i \in 1..Len(uvertices) : uvertices[i] = ncells[j]) - 1]

RECURSIVE Offset(_, _, _)
\* k when the loop over the dict reaches the key at position i
Offset(cells, ord, i) ==
    IF i = 1 THEN 0 ELSE Offset(cells, ord, i - 1) + Size(cells[ord[i - 1]])

\* array[uvertices]
Take(array, uvertices) == [j \in 1..Len(uvertices) |-> array[uvertices[j] + 1]]

\* a faulty variant of PrunedCells: every block is cut from the start of uidx
PrunedCellsNoOffset(cells, ord, uidx) ==
    [key \in DOMAIN cells |->
        Reshape(SubSeq(uidx, 1, Size(cells[key])), Shape(cells[key]))]

\* the loop that rewrites mesh.cells[key]
PrunedCells(cells, ord, uidx) ==
    [key \in DOMAIN cells |->
        LET i == CHOOSE i \in 1..Len(ord) : ord[i] = key
            k == Offset(cells, ord, i)
        IN Reshape(SubSeq(uidx, k + 1, k + Size(cells[key])), Shape(cells[key]))]

\* the body of "if prune_vertices:", for a mesh with at least one cell block
Pruned(m, ord) ==
    LET ncells == NCells(m.cells, ord)
        uvertices == Unique(ncells)
        uidx == Inverse(uvertices, ncells)
    IN [m EXCEPT !.cells = PrunedCells(m.cells, ord, uidx),
                 !.points = Take(m.points, uvertices),
                 !.point_data = [key \in DOMAIN m.point_data |->
                                    Take(m.point_data[key], uvertices)]]

\* a faulty variant of IsFlat: the sign of the third coordinate is not dropped
IsFlatSigned(points) ==
    /\ \A i \in 1..Len(points) : Len(points[i]) = 3
    /\ \A i \in 1..Len(points) : points[i][3] < ZTol

\* mesh.points.shape[1] == 3 and numpy.all(numpy.abs(mesh.points[:, 2]) < 1.0e-13)
IsFlat(points) ==
    /\ \A i \in 1..Len(points) : Len(points[i]) = 3
    /\ \A i \in 1..Len(points) : Abs(points[i][3]) < ZTol

\* mesh.points[:, :2]
DropThird(points) == [i \in 1..Len(points) |-> SubSeq(points[i], 1, 2)]

\* mesh = meshio.read(msh_filename), the decoder returning m
MeshioRead(m) ==
    /\ pc = "read"
    /\ a.msh_filename \in files
    /\ mesh' = m /\ raw' = m
    /\ hist' = [hist EXCEPT !.read = @ + 1]
    /\ pc' = "remove_faces"
    /\ UNCHANGED << a, heap, caller0, cmd, files, proc, pipe, buf, printed,
                    result, splineVars >>

\* meshio.read raises: the file is missing or cannot be decoded
MeshioReadError ==
    /\ pc = "read"
    /\ hist' = [hist EXCEPT !.read = @ + 1]
    /\ pc' = "failed"
    /\ result' = Raised("ReadError")
    /\ UNCHANGED << a, heap, caller0, cmd, files, proc, pipe, buf, printed, mesh,
                    raw, splineVars >>

\* if remove_faces: ...; mesh.cell_data[key] raises KeyError for a kept key
\* the decoder gave no cell data for, after mesh.cells has been replaced
RemoveFaces ==
    /\ pc = "remove_faces"
    /\ IF ~a.remove_faces
       THEN pc' = "prune_vertices" /\ UNCHANGED << mesh, result >>
       ELSE LET keep_keys == KeepKeys(DOMAIN mesh.cells)
                cells == [key \in keep_keys |-> mesh.cells[key]]
            IN IF keep_keys \subseteq DOMAIN mesh.cell_data
               THEN /\ mesh' = [mesh EXCEPT !.cells = cells,
                                      !.cell_data = [key \in keep_keys |->
                                                        mesh.cell_data[key]]]
                    /\ pc' = "prune_vertices"
                    /\ UNCHANGED result
               ELSE /\ mesh' = [mesh EXCEPT !.cells = cells]
                    /\ pc' = "failed"
                    /\ result' = Raised("KeyError")
    /\ UNCHANGED << a, heap, caller0, cmd, files, proc, pipe, buf, printed, raw,
                    hist, splineVars >>

\* if prune_vertices: ...; numpy.concatenate raises ValueError when there is
\* no cell block to concatenate
PruneVertices ==
    /\ pc = "prune_vertices"
    /\ IF ~a.prune_vertices
       THEN pc' = "clean_up" /\ UNCHANGED << mesh, result >>
       ELSE IF DOMAIN mesh.cells = {}
       THEN pc' = "failed" /\ result' = Raised("ValueError") /\ UNCHANGED mesh
       ELSE /\ \E ord \in KeyOrders(DOMAIN mesh.cells) : mesh' = Pruned(mesh, ord)
            /\ pc' = "clean_up"
            /\ UNCHANGED result
    /\ UNCHANGED << a, heap, caller0, cmd, files, proc, pipe, buf, printed, raw,
                    hist, splineVars >>

\* the "clean up" block: the mesh file is removed; the script is removed, or
\* its name is printed when the caller named it
CleanUp ==
    /\ pc = "clean_up"
    /\ files' = IF a.preserve_geo THEN files \ { a.msh_filename }
                ELSE files \ { a.msh_filename, a.geo_filename }
    /\ printed' = IF a.preserve_geo
                  THEN Append(printed, << "\ngeo file: ", a.geo_filename, "\n" >>)
                  ELSE printed
    /\ pc' = "prune_z_0"
    /\ UNCHANGED << a, heap, caller0, cmd, proc, pipe, buf, mesh, raw, result,
                    hist, splineVars >>

\* if prune_z_0 and ...: mesh.points = mesh.points[:, :2]; return ...
PruneZ0 ==
    /\ pc = "prune_z_0"
    /\ LET points == IF a.prune_z_0 /\ IsFlat(mesh.points)
                     THEN DropThird(mesh.points) ELSE mesh.points
       IN /\ mesh' = [mesh EXCEPT !.points = points]
          /\ result' = [status |-> "returned", value |-> mesh']
    /\ pc' = "returned"
    /\ UNCHANGED << a, heap, caller0, cmd, files, proc, pipe, buf, printed, raw,
                    hist, splineVars >>

\* the caller has the result, or the exception, and goes on
Resume ==
    /\ pc \in { "returned", "failed" }
    /\ hist.calls < MaxCalls
    /\ pc' = "idle"
    /\ a' = NoArgs /\ cmd' = << >> /\ proc' = NoProc
    /\ pipe' = << >> /\ buf' = << >> /\ printed' = << >>
    /\ mesh' = NoMesh /\ raw' = NoMesh /\ result' = NoResult
    /\ hist' = [hist EXCEPT !.popen = 0, !.read = 0]
    /\ UNCHANGED << heap, caller0, files, splineVars >>

----------------------------------------------------------------------------
(* The inputs explored: what the caller passes, what the engine prints and *)
(* what the decoder returns.                                               *)

Tokens == { "a", "b", "\n" }
Outputs == SeqsUpTo(Tokens, MaxOut)

ZVals == { 0, 9, 10, -11 }
FlatZ == [i \in 1..MaxPts |-> 0]

CellTypeSeq == << "tetra", "triangle", "line", "hexahedron", "quad", "vertex",
                 "wedge", "pyramid", "penta_prism", "hexa_prism" >>
CellTypes == Range(CellTypeSeq)

\* a decoded mesh: point i (0-based) at (i, 2 i, zs[i]), one point field u,
\* one tag per cell for the cell types in cdkeys
DecodedMesh(zs, cells, cdkeys) ==
    [points |-> [i \in 1..MaxPts |-> << i - 1, 2 * (i - 1), zs[i] >>],
     cells |-> cells,
     point_data |-> [key \in { "u" } |-> [i \in 1..MaxPts |-> 100 + i - 1]],
     cell_data |-> [key \in cdkeys |-> [r \in 1..Len(cells[key]) |-> r]],
     field_data |-> [key \in { "boundary" } |-> << 1, 1 >>]]

\* two-dimensional index arrays with exactly n entries
Blocks(n) ==
    UNION { [1..r -> [1..(n \div r) -> 0..(MaxPts - 1)]] :
            r \in { r \in 1..n : n % r = 0 } }
BlocksUpTo(n) == UNION { Blocks(k) : k \in 1..n }

TypeBlock(t) ==
    LET i == CHOOSE i \in 1..Len(CellTypeSeq) : CellTypeSeq[i] = t
    IN << << i % MaxPts, (i + 1) % MaxPts >> >>

\* every set of at most MaxTypes cell types, with and without cell data
KeyMeshes ==
    UNION { { DecodedMesh(FlatZ, [t \in K |-> TypeBlock(t)], K),
              DecodedMesh(FlatZ, [t \in K |-> TypeBlock(t)], {}) } :
            K \in { K \in SUBSET CellTypes : Cardinality(K) <= MaxTypes } }

\* every connectivity of at most MaxEntries entries in one block, and of
\* fewer entries in two blocks
BlockMeshes ==
    { DecodedMesh(FlatZ, ("triangle" :> b), { "triangle" }) :
        b \in BlocksUpTo(MaxEntries) }
    \cup UNION { { DecodedMesh(FlatZ, ("triangle" :> b1) @@ ("line" :> b2),
                                { "triangle", "line" }) :
                    b1 \in Blocks(n), b2 \in BlocksUpTo(MaxEntries - 1 - n) } :
                n \in 1..(MaxEntries - 2) }

\* every choice of third coordinates, with one cell over all points or over
\* all points but one
ZMeshes ==
    { DecodedMesh(zs, ("triangle" :> << SortedSeq(S) >>), { "triangle" }) :
        zs \in [1..MaxPts -> ZVals],
        S \in { 0..(MaxPts - 1) } \cup { (0..(MaxPts - 1)) \ { i } : i \in 1..(MaxPts - 1) } }

RawMeshes == KeyMeshes \cup BlockMeshes \cup ZMeshes

\* the decoder's answers explored where the mesh is not the subject
FewMeshes == { m \in KeyMeshes : DOMAIN m.cells \subseteq { "triangle" } }

\* what a call passes, field by field
ArgSets(verbose, dims, flags, extra, geo, types) ==
    [verbose : verbose, dim : dims, prune_vertices : flags, prune_z_0 : flags,
     remove_faces : flags, extra : extra, geo_filename : geo,
     mesh_file_type : types, preserve_geo : { FALSE }, msh_filename : { "" }]

\* the default call: prune_vertices=True, prune_z_0=False, remove_faces=False
DefaultFlags(args) == args.prune_vertices /\ ~args.prune_z_0 /\ ~args.remove_faces

\* calls that differ in the post-processing they ask for, and the default
\* call without verbose output
MeshArgs ==
    { args \in ArgSets(BOOLEAN, { 3 }, BOOLEAN, { None }, { None }, { "msh" }) :
        args.verbose \/ DefaultFlags(args) }

\* default calls that differ in whether the engine's output is printed
PipeArgs ==
    { args \in ArgSets(BOOLEAN, { 3 }, BOOLEAN, { None }, { None }, { "msh" }) :
        DefaultFlags(args) }

\* default calls that differ in the arguments between caller and engine
CallArgs ==
    { args \in ArgSets(BOOLEAN, { 2, 3 }, BOOLEAN, { None, "caller" },
                       { None, "user.geo" }, { "msh", "mesh" }) :
        DefaultFlags(args) }

CallerLists == { << >>, << "-nt", "2" >> }

----------------------------------------------------------------------------
(* Specifications *)

InitWith(list) ==
    /\ line_ID = 0 /\ spline = NoSpline
    /\ pc = "idle" /\ a = NoArgs
    /\ heap = [caller |-> list, fresh |-> << >>] /\ caller0 = list
    /\ cmd = << >> /\ files = {} /\ proc = NoProc
    /\ pipe = << >> /\ buf = << >> /\ printed = << >>
    /\ mesh = NoMesh /\ raw = NoMesh /\ result = NoResult
    /\ hist = [calls |-> 0, popen |-> 0, read |-> 0]

\* the engine's steps
Engine ==
    \/ EngineWrite
    \/ proc.state = "running" /\ \E rc \in ReturnCodes, wrote \in BOOLEAN :
                                    EngineExit(rc, wrote)

\* a call with arguments and engine output from the given sets
Calls(argset, outs) ==
    pc = "idle" /\ \E args \in argset, out \in outs : Call(args, out)

\* the decoder returns one of the given meshes
Decodes(meshes) == pc = "read" /\ \E m \in meshes : MeshioRead(m)

\* the steps of generate_mesh after the launch, but for the decoder's answer
Steps ==
    \/ ReadFill \/ PrintLine \/ ReadEOF \/ CommunicateRead \/ CommunicateDone
    \/ AssertReturncode \/ MeshioReadError \/ RemoveFaces \/ PruneVertices
    \/ CleanUp \/ PruneZ0

\* Spline constructions
SplineInitial == InitWith(<< >>)
SplineNext ==
    line_ID < MaxId /\ \E points \in SeqsUpTo(Entities, MaxLen) : SplineInit(points)
SplineSpec == SplineInitial /\ [][SplineNext]_vars

\* one generate_mesh call, over the decoded meshes and the post-processing
\* flags
MeshInitial == InitWith(<< >>)
MeshNext ==
    \/ Calls(MeshArgs, { << "a", "\n" >> })
    \/ Engine
    \/ Decodes(RawMeshes)
    \/ Steps
MeshSpec == MeshInitial /\ [][MeshNext]_vars

\* calls one after the other, over the arguments between caller and engine
CallsInitial == \E list \in CallerLists : InitWith(list)
CallsNext ==
    \/ Calls(CallArgs, { << "a", "\n" >> })
    \/ Engine
    \/ Decodes(FewMeshes)
    \/ Steps
    \/ Resume
CallsSpec == CallsInitial /\ [][CallsNext]_vars

\* one generate_mesh call, over what the engine writes, with the scheduling
\* of the operating system: the engine and the caller each run when they can
Init == InitWith(<< >>)
Next ==
    \/ Calls(PipeArgs, Outputs)
    \/ Engine
    \/ Decodes(FewMeshes)
    \/ Steps
Fairness ==
    /\ WF_vars(Engine)
    /\ WF_vars(Steps)
    /\ WF_vars(Decodes(FewMeshes))
Spec == Init /\ [][Next]_vars /\ Fairness

----------------------------------------------------------------------------
(* Properties of Spline (checked under SplineSpec) *)

RECURSIVE SplitOn(_, _)
\* the pieces of a text between the occurrences of a separator token
SplitOn(sep, text) ==
    IF \A i \in 1..Len(text) : text[i] # sep THEN << text >>
    ELSE LET i == CHOOSE i \in 1..Len(text) :
                    text[i] = sep /\ \A j \in 1..(i - 1) : text[j] # sep
         IN << SubSeq(text, 1, i - 1) >> \o SplitOn(sep, SubSeq(text, i + 1, Len(text)))

\* the sequence handed to the last construction cannot make a curve
BadPoints ==
    \/ Len(spline.args) <= 3
    \/ \E i \in 1..Len(spline.args) : spline.args[i].kind # "Point"

\* C1: constructing a Spline fails, leaving no code, whenever the sequence
\* has 3 or fewer elements or holds an element that is not a Point; for
\* every sequence of 4 or more Points the construction succeeds.
C1_SplineValidation ==
    spline.status # "none" =>
        /\ BadPoints => spline.status = "AssertionError" /\ spline.code = << >>
        /\ ~BadPoints => spline.status = "ok" /\ spline.code # << >>

\* three Points, and nothing else, were refused
C1_Witness ==
    /\ spline.status = "AssertionError"
    /\ Len(spline.args) = 3
    /\ \A i \in 1..3 : spline.args[i].kind = "Point"

\* the items of a ", "-separated list: the tokens at the odd positions, the
\* separators being at the even ones
ListItems(list) ==
    IF list = << >> THEN << >>
    ELSE [i \in 1..((Len(list) + 1) \div 2) |-> list[2 * i - 1]]

WellSeparated(list) ==
    /\ Len(list) % 2 = 1
    /\ \A i \in 1..Len(list) : (i % 2 = 0) <=> (list[i] = ", ")

\* C2: the code of a constructed Spline is exactly two statements: the
\* binding of its id to newl, then one BSpline definition for the same id
\* whose point list is the ids of the given points, one per occurrence, in
\* the order given.
C2_SplineCode ==
    spline.status = "ok" =>
        LET stmts == SplitOn("\n", spline.code)
            def == stmts[2]
            list == SubSeq(def, 4, Len(def) - 1)
        IN /\ Len(stmts) = 2
           /\ stmts[1] = << spline.id, " = newl;" >>
           /\ Len(def) >= 5
           /\ SubSeq(def, 1, 3) = << "BSpline(", spline.id, ") = {" >>
           /\ def[Len(def)] = "};"
           /\ WellSeparated(list)
           /\ ListItems(list) = [i \in 1..Len(spline.args) |-> spline.args[i].id]

\* a curve through five points that visits one point twice, out of the
\* order of the ids
C2_Witness ==
    /\ spline.status = "ok"
    /\ Len(spline.args) = 5
    /\ spline.args[1] = spline.args[3]
    /\ spline.args[1].id = "p1" /\ spline.args[2].id = "p0"

----------------------------------------------------------------------------
(* Properties of the post-processing stages (checked under MeshSpec) *)

\* the vertex indices that appear in the blocks named by keys
ReferencedBy(cells, keys) ==
    UNION { { cells[key][r][c] : r \in 1..Len(cells[key]), c \in 1..Len(cells[key][1]) } :
            key \in keys }

\* the raw points that only blocks dropped by the filtering refer to
OnlyDropped ==
    ReferencedBy(raw.cells, DOMAIN raw.cells \ DOMAIN result.value.cells)
        \ ReferencedBy(raw.cells, DOMAIN result.value.cells)

\* C3: when generate_mesh returns with prune_vertices on, every vertex
\* index of every returned cell block is in [0, number of returned points),
\* every returned point is referenced by a returned cell block, and a point
\* that only dropped cell blocks referred to is not returned.
C3_PruneInvariant ==
    (pc = "returned" /\ a.prune_vertices) =>
        LET m == result.value
            used == ReferencedBy(m.cells, DOMAIN m.cells)
        IN /\ result.status = "returned"
           /\ used = 0..(Len(m.points) - 1)
           /\ \A i \in OnlyDropped :
                \A j \in 1..Len(m.points) :
                    SubSeq(m.points[j], 1, 2) # SubSeq(raw.points[i + 1], 1, 2)

\* the filtering dropped a block, and with it the only references to a point
C3_Witness ==
    /\ pc = "returned" /\ a.prune_vertices /\ a.remove_faces
    /\ OnlyDropped # {}
    /\ Len(result.value.points) < Len(raw.points)

\* n is m with its unreferenced points removed: f lists, in increasing
\* order, the old index of every point kept
RemapBy(f, m, n) ==
    /\ \A j \in 1..(Len(f) - 1) : f[j] < f[j + 1]
    /\ Range(f) = ReferencedBy(m.cells, DOMAIN m.cells)
    /\ Len(n.points) = Len(f)
    /\ \A j \in 1..Len(f) : n.points[j] = m.points[f[j] + 1]
    /\ DOMAIN n.cells = DOMAIN m.cells
    /\ \A key \in DOMAIN m.cells :
        /\ Len(n.cells[key]) = Len(m.cells[key])
        /\ \A r \in 1..Len(m.cells[key]) :
            /\ Len(n.cells[key][r]) = Len(m.cells[key][r])
            /\ \A c \in 1..Len(m.cells[key][r]) :
                /\ n.cells[key][r][c] \in 0..(Len(f) - 1)
                /\ f[n.cells[key][r][c] + 1] = m.cells[key][r][c]
                /\ n.points[n.cells[key][r][c] + 1] = m.points[m.cells[key][r][c] + 1]
    /\ DOMAIN n.point_data = DOMAIN m.point_data
    /\ \A key \in DOMAIN m.point_data :
        /\ Len(n.point_data[key]) = Len(f)
        /\ \A j \in 1..Len(f) : n.point_data[key][j] = m.point_data[key][f[j] + 1]
    /\ n.cell_data = m.cell_data /\ n.field_data = m.field_data

StableRemap(m, n) ==
    \E f \in UNION { [1..k -> 0..(Len(m.points) - 1)] : k \in 1..Len(m.points) } :
        RemapBy(f, m, n)

\* C4: the pruning is a stable remap: the points kept are the referenced
\* points in their original relative order, every cell block keeps its
\* shape and every cell entry reaches the same point as before, and every
\* point_data array is re-indexed by the same selection.
C4_StableRemap ==
    [][ (pc = "prune_vertices" /\ a.prune_vertices /\ pc' = "clean_up")
            => StableRemap(mesh, mesh') ]_vars

\* points were removed from the middle and cell entries renumbered
C4_Witness ==
    /\ pc = "clean_up" /\ a.prune_vertices /\ ~a.remove_faces
    /\ Len(mesh.points) = 2 /\ Len(raw.points) > 2
    /\ mesh.points[1] = raw.points[1] /\ mesh.points[2] = raw.points[3]
    /\ \E key \in DOMAIN mesh.cells : mesh.cells[key] # raw.cells[key]
    /\ Cardinality(DOMAIN mesh.cells) = 2

Volumetric == { "tetra", "hexahedron", "wedge", "pyramid", "penta_prism", "hexa_prism" }
Surface == { "triangle", "quad" }

\* the cell types the filtering is to retain
Retained(present) ==
    IF present \cap Volumetric # {} THEN present \cap Volumetric
    ELSE IF present \cap Surface # {} THEN present \cap Surface
    ELSE present

\* C5: with remove_faces on, the blocks retained are the volumetric blocks
\* present if there is one, else the surface blocks present if there is
\* one, else all blocks; retained blocks keep their connectivity and
\* cell_data is restricted to the retained cell types.
C5_Filtering ==
    [][ (pc = "remove_faces" /\ a.remove_faces /\ pc' = "prune_vertices")
            => /\ DOMAIN mesh'.cells = Retained(DOMAIN mesh.cells)
               /\ \A key \in DOMAIN mesh'.cells : mesh'.cells[key] = mesh.cells[key]
               /\ DOMAIN mesh'.cell_data = Retained(DOMAIN mesh.cells)
               /\ \A key \in DOMAIN mesh'.cell_data :
                      mesh'.cell_data[key] = mesh.cell_data[key]
               /\ mesh'.points = mesh.points
               /\ mesh'.point_data = mesh.point_data
               /\ mesh'.field_data = mesh.field_data ]_vars

\* a tetra block was kept and a triangle block and a line block were dropped
C5_Witness ==
    /\ pc = "prune_vertices" /\ a.remove_faces
    /\ DOMAIN raw.cells = { "tetra", "triangle", "line" }
    /\ DOMAIN mesh.cells = { "tetra" }
    /\ DOMAIN mesh.cell_data = { "tetra" }

\* C8: with prune_z_0 on and every remaining point's third coordinate
\* within the tolerance, every returned point is its first two coordinates;
\* with prune_z_0 off, or a third coordinate beyond the tolerance, the
\* points are returned as they are.  Nothing else is changed, and the points
\* tested are those that remain after the pruning.
C8_FlatCollapse ==
    [][ (pc = "prune_z_0" /\ pc' = "returned")
            => LET n == Len(mesh.points)
                   within == \A i \in 1..n : Abs(mesh.points[i][3]) < ZTol
                   beyond == \E i \in 1..n : Abs(mesh.points[i][3]) > ZTol
               IN /\ Len(mesh'.points) = n
                  /\ (a.prune_z_0 /\ within) =>
                        \A i \in 1..n :
                            mesh'.points[i] = << mesh.points[i][1], mesh.points[i][2] >>
                  /\ (~a.prune_z_0 \/ beyond) => mesh'.points = mesh.points
                  /\ mesh'.cells = mesh.cells
                  /\ mesh'.point_data = mesh.point_data
                  /\ mesh'.cell_data = mesh.cell_data
                  /\ mesh'.field_data = mesh.field_data
                  /\ result' = [status |-> "returned", value |-> mesh'] ]_vars

\* the one point off the plane was pruned, and the rest were returned in 2D
C8_Witness ==
    /\ pc = "returned" /\ a.prune_z_0 /\ a.prune_vertices
    /\ \E i \in 1..Len(raw.points) : Abs(raw.points[i][3]) > ZTol
    /\ \E i \in 1..Len(raw.points) : raw.points[i][3] \notin { 0, ZTol, -ZTol }
                                        /\ Abs(raw.points[i][3]) < ZTol
    /\ Len(result.value.points) = Len(raw.points) - 1
    /\ \A j \in 1..Len(result.value.points) : Len(result.value.points[j]) = 2

----------------------------------------------------------------------------
(* Properties of the call as a whole *)

Ended == pc \in { "returned", "failed" }

\* C6: once the call has ended, on whatever path, the mesh file is gone, and
\* the script file is gone unless the caller named it, in which case it is
\* kept.  (Checked under CallsSpec.)
C6_TempFilesRemoved ==
    Ended =>
        /\ a.msh_filename \notin files
        /\ a.preserve_geo => a.geo_filename \in files
        /\ ~a.preserve_geo => a.geo_filename \notin files

\* C7: with a non-zero exit status the call ends in a reported failure: the
\* decoder is not run, no stage has touched a mesh, nothing is returned and
\* the engine is not launched again; the decoder runs only after exit
\* status 0.  (Checked under Spec.)
C7_EngineFailure ==
    /\ (proc.state = "exited" /\ proc.returncode # 0
            /\ pc \notin { "readline", "communicate", "assert" })
         => /\ pc = "failed"
            /\ result = Raised("AssertionError")
            /\ hist.read = 0 /\ hist.popen = 1
            /\ mesh = NoMesh /\ raw = NoMesh
    /\ (hist.read > 0 \/ pc \in { "read", "remove_faces", "prune_vertices",
                                    "clean_up", "prune_z_0", "returned" })
         => proc.state = "exited" /\ proc.returncode = 0

\* the engine was killed by a signal and the call failed
C7_Witness ==
    pc = "failed" /\ proc.state = "exited" /\ proc.returncode < 0

\* the engine cannot go on writing until somebody reads
EngineBlocked ==
    proc.state = "running" /\ proc.out # << >> /\ Len(pipe) >= PipeCap

Streaming == pc \in { "readline", "communicate" }

\* every printed line but the last ends with the newline, and holds no other
ProperLines ==
    \A i \in 1..Len(printed) :
        /\ printed[i] # << >>
        /\ \A j \in 1..(Len(printed[i]) - 1) : printed[i][j] # "\n"
        /\ i < Len(printed) => printed[i][Len(printed[i])] = "\n"

\* C9: verbose or not, and whatever the engine writes, the engine is never
\* left blocked on a full pipe: while it is blocked the caller is reading,
\* it gets unblocked, and the call reaches the check of the exit status; in
\* verbose mode what was printed by then is what the engine wrote, line by
\* line, in order.  (Checked under Spec, with its fairness.)
C9_NoPipeDeadlock ==
    /\ [](EngineBlocked => Streaming)
    /\ (EngineBlocked ~> ~EngineBlocked)
    /\ (Streaming ~> (pc = "assert"))
    /\ []((pc = "assert" /\ a.verbose) =>
            /\ Concat(printed) = proc.written
            /\ proc.out = << >>
            /\ ProperLines)
    /\ []((pc = "assert" /\ ~a.verbose) => (printed = << >> /\ proc.out = << >>))

\* more output than the pipe holds went through, in several lines
C9_Witness ==
    /\ pc = "assert" /\ a.verbose
    /\ Len(proc.written) > PipeCap
    /\ Len(printed) >= 2
    /\ printed[1] # printed[2]

\* the arguments the engine is to get, given what the caller passed
ExpectedCmd ==
    << GmshExe, "-" \o ToStr(a.dim), a.geo_filename, "-format", a.mesh_file_type,
       "-bin", "-o", a.msh_filename >>
    \o (IF a.extra = "caller" THEN caller0 ELSE << >>)
    \o (IF a.mesh_file_type = "mesh" THEN SaveTagOption ELSE << >>)

\* C10: the caller's extra_gmsh_arguments list is left as the caller made
\* it, so that every call runs the engine with the fixed arguments, the
\* caller's extra arguments and, for format "mesh" only, one -string pair.
\* (Checked under CallsSpec.)
C10_ExtraArgsUnchanged ==
    /\ heap.caller = caller0
    /\ pc # "idle" => cmd = ExpectedCmd

====
